---- MODULE Spec2Model ----
(***************************************************************************)
(* Ukkonen's suffix-tree construction and the suffix array read off it,    *)
(* together with the numeric and string routines of the repository         *)
(* (modular exponentiation, Miller-Rabin, Z-array).                        *)
(*                                                                         *)
(* Characters are code points, a text is a sequence of code points.        *)
(* Python objects live in heaps: heapNode, heapEdge and heapEnd are        *)
(* sequences, an object's identity is its index, None is the value None.   *)
(***************************************************************************)
EXTENDS Integers, Sequences, FiniteSets, TLC

(***************************************************************************)
(* Program constants                                                       *)
(***************************************************************************)
ALPHABET_START == 36
ALPHABET_END == 126
ALPHABET_LENGTH == ALPHABET_END - ALPHABET_START + 1

\* Python's None; no object identity, offset or length is negative
None == -1

\* the terminator "$" appended by Ukkonen.__init__
Terminator == 36

\* identity of the root Node and of the shared End object
root == 1
global_end == 1

(***************************************************************************)
(* Bounds of the model                                                     *)
(***************************************************************************)
\* texts over the whole modelled character set, invalid characters included
MaxLen == 3
\* texts over {a, b}
MaxBinLen == 9
\* texts over {%, a, ~}
MaxTriLen == 5

\* '#' (below the range), '$', '%' (lowest content character), 'a', 'b',
\* '~' (highest content character), DEL (above the range)
AllChars == {35, 36, 37, 97, 98, 126, 127}
BinChars == {97, 98}
TriChars == {37, 97, 126}
banana == <<98, 97, 110, 97, 110, 97>>

StringsUpTo(A, n) == UNION {[1..k -> A] : k \in 0..n}

Texts ==
    StringsUpTo(AllChars, MaxLen) \cup StringsUpTo(BinChars, MaxBinLen)
        \cup StringsUpTo(TriChars, MaxTriLen) \cup {banana}

VARIABLES
    text,            \* self.text: the input with the terminator appended
    heapNode,        \* Node objects: [edges, link]
    heapEdge,        \* Edge objects: [start, end, next, suffix_id]
    heapEnd,         \* End objects: their value
    active_node, active_edge, active_length,   \* self.active_point
    remainder, previous_node,
    i,               \* the phase index of build_suffix_tree's loop
    pc,              \* "build", "extend", "built", "done", "raised"
    suffix_array,    \* the result of suffix_tree_to_suffix_array
    rule,            \* the branch the last loop iteration took
    fallback,        \* number of times line 264 (reset to root) ran
    link_follows,    \* number of times line 261 followed a link off the root
    link_writes,     \* per Node: number of assignments to its link
    end_writes,      \* number of assignments to global_end.value
    mx,              \* the frame of modular_exponentiation
    zf,              \* the frame of find_z_array
    mr               \* the frame of miller_rabin

ukkVars == <<text, heapNode, heapEdge, heapEnd, active_node, active_edge,
             active_length, remainder, previous_node, i, pc, suffix_array,
             rule, fallback, link_follows, link_writes, end_writes>>

vars == <<ukkVars, mx, zf, mr>>

(***************************************************************************)
(* Python subscripts                                                       *)
(***************************************************************************)
\* a subscript k of a list or string of length n raises IndexError unless
\* -n <= k < n; a negative subscript counts from the end
PyIndexOk(k, n) == -n <= k /\ k < n
PyIndex(k, n) == IF k < 0 THEN k + n ELSE k

\* self.text[j]
TextOk(j) == PyIndexOk(j, Len(text))
TextAt(j) == text[PyIndex(j, Len(text)) + 1]

\* faulty variant: the table starts at the first content character, not at "$"
SlotPastTerminator(c) == c - (ALPHABET_START + 1)

\* ord(c) - ALPHABET_START, the subscript into a node's edge table
Slot(c) == c - ALPHABET_START
SlotOk(c) == PyIndexOk(Slot(c), ALPHABET_LENGTH)
SlotOf(c) == PyIndex(Slot(c), ALPHABET_LENGTH)

\* Node(): an empty edge table and no link
NewNode == [edges |-> [s \in 0..(ALPHABET_LENGTH - 1) |-> None], link |-> None]

\* Edge(start, end, suffix_id)
NewEdge(start, end, suffix_id) ==
    [start |-> start, end |-> end, next |-> None, suffix_id |-> suffix_id]

\* Edge.__len__ over given heaps
EdgeLenIn(edges, ends, e) == ends[edges[e].end] - edges[e].start + 1
EdgeLen(e) == EdgeLenIn(heapEdge, heapEnd, e)

(***************************************************************************)
(* Ukkonen.__init__, up to the call of build_suffix_tree                   *)
(***************************************************************************)
UkkInit ==
    /\ text \in {T \o <<Terminator>> : T \in Texts}
    /\ heapNode = <<[NewNode EXCEPT !.link = root]>>
    /\ heapEnd = <<None>>
    /\ heapEdge = <<>>
    /\ active_node = root
    /\ active_edge = None
    /\ active_length = 0
    /\ remainder = 0
    /\ previous_node = None
    /\ i = 0
    /\ pc = "build"
    /\ suffix_array = <<>>
    /\ rule = "none"
    /\ fallback = 0
    /\ link_follows = 0
    /\ link_writes = <<1>>
    /\ end_writes = 0

(***************************************************************************)
(* build_suffix_tree: the head of one iteration of its loop                *)
(***************************************************************************)
\* the phase after phase i, or the end of the loop
NextPhase ==
    /\ i' = i + 1
    /\ pc' = IF i + 1 < Len(text) THEN "build" ELSE "built"

\* faulty variant: the previous internal node survives into the next phase
BeginPhaseKeepsPrevious ==
    /\ pc = "build"
    /\ heapEnd' = [heapEnd EXCEPT ![global_end] = i]
    /\ remainder' = remainder + 1
    /\ pc' = "extend"
    /\ rule' = "begin"
    /\ end_writes' = end_writes + 1
    /\ UNCHANGED <<text, heapNode, heapEdge, active_node, active_edge,
                   active_length, i, suffix_array, fallback, link_follows,
                   link_writes, previous_node>>

BeginPhase ==
    /\ pc = "build"
    /\ heapEnd' = [heapEnd EXCEPT ![global_end] = i]
    /\ remainder' = remainder + 1
    /\ previous_node' = None
    /\ pc' = "extend"
    /\ rule' = "begin"
    /\ end_writes' = end_writes + 1
    /\ UNCHANGED <<text, heapNode, heapEdge, active_node, active_edge,
                   active_length, i, suffix_array, fallback, link_follows,
                   link_writes>>

(***************************************************************************)
(* extend_suffix_tree: one iteration of the while loop                     *)
(***************************************************************************)
\* faulty variant: the active edge is reset whether or not a length is matched
AlwaysResetActiveEdge == i

\* ActivePoint.update_active_edge(i): the active edge after the call
UpdatedActiveEdge == IF active_length = 0 THEN i ELSE active_edge

\* line 179 raises: no active node, or a subscript out of range
KeyFault ==
    \/ active_node = None
    \/ ~TextOk(UpdatedActiveEdge)
    \/ ~SlotOk(TextAt(UpdatedActiveEdge))

\* the subscript ord(self.text[active_edge]) - ALPHABET_START of lines 179, 187, 237
ActiveSlot == SlotOf(TextAt(UpdatedActiveEdge))

\* line 179: the edge of the active node under the active edge's character
ActiveEdgeObj == heapNode[active_node].edges[ActiveSlot]

\* line 208: the index of the character compared with the phase's character
NextOnEdge == heapEdge[ActiveEdgeObj].start + active_length

\* faulty variant: the leaf is numbered by the phase, not by the suffix it ends
LeafSuffixIdOfPhase == i

\* the suffix id of the leaf created in phase i (lines 184 and 227)
LeafSuffixId == i - remainder + 1

\* faulty variant: the closed edge keeps the mismatching character
SplitEndPastMatch == heapEdge[ActiveEdgeObj].start + active_length

\* line 221: the end value of the closed edge a split creates
SplitEndValue == heapEdge[ActiveEdgeObj].start + active_length - 1

\* faulty variant: the walk-down is skipped when the active length equals
\* the edge length
CoversEdgeStrictly == active_length > EdgeLen(ActiveEdgeObj)

\* line 198: the active length reaches the end of the edge or passes it
CoversEdge == active_length >= EdgeLen(ActiveEdgeObj)

\* the line of the iteration that raises, "" when none does
Fault ==
    IF KeyFault THEN "179"
    ELSE IF ActiveEdgeObj = None THEN ""
    ELSE IF EdgeLen(ActiveEdgeObj) < 0 THEN "198"
    ELSE IF CoversEdge THEN ""
    ELSE IF ~TextOk(NextOnEdge) THEN "208"
    ELSE IF TextAt(NextOnEdge) = TextAt(i) THEN ""
    ELSE IF ~SlotOk(TextAt(i)) THEN "228"
    ELSE IF ~SlotOk(TextAt(NextOnEdge)) THEN "241"
    ELSE ""

\* faulty variant: the previous internal node is never linked
LinkNothing(nodes, target) == nodes

\* "if self.previous_node: self.previous_node.link = target"
LinkPrevious(nodes, target) ==
    IF previous_node = None THEN nodes
    ELSE [nodes EXCEPT ![previous_node].link = target]

CountLinkWrite(writes) ==
    IF previous_node = None THEN writes
    ELSE [writes EXCEPT ![previous_node] = @ + 1]

\* lines 250-264 and the loop test of line 174, after an insertion that left
\* the nodes as `nodes`
UpdateActivePoint(nodes) ==
    /\ remainder' = remainder - 1
    /\ IF active_node = root /\ active_length > 0
       THEN /\ active_length' = active_length - 1
            /\ active_edge' = i - (remainder - 1) + 1
            /\ active_node' = active_node
            /\ UNCHANGED <<fallback, link_follows>>
       ELSE /\ active_length' = active_length
            /\ active_edge' = UpdatedActiveEdge
            /\ IF nodes[active_node].link # None
               THEN /\ active_node' = nodes[active_node].link
                    /\ fallback' = fallback
                    /\ link_follows' = IF active_node # root
                                       THEN link_follows + 1
                                       ELSE link_follows
               ELSE /\ active_node' = root
                    /\ fallback' = fallback + 1
                    /\ link_follows' = link_follows
    /\ IF remainder - 1 > 0
       THEN pc' = "extend" /\ i' = i
       ELSE NextPhase

\* rule 2, lines 182-194: no edge under the active character, create a leaf
LeafCreate ==
    /\ pc = "extend"
    /\ Fault = ""
    /\ ActiveEdgeObj = None
    /\ LET new_edge == Len(heapEdge) + 1
           nodes == LinkPrevious(
                        [heapNode EXCEPT ![active_node].edges[ActiveSlot] = new_edge],
                        active_node)
       IN /\ heapEdge' = Append(heapEdge, NewEdge(i, global_end, LeafSuffixId))
          /\ heapNode' = nodes
          /\ link_writes' = CountLinkWrite(link_writes)
          /\ previous_node' = None
          /\ UpdateActivePoint(nodes)
    /\ rule' = "leaf"
    /\ UNCHANGED <<text, end_writes, heapEnd, suffix_array>>

\* faulty variant: the walk-down leaves the active length as it was
WalkDownKeepsLength ==
    /\ pc = "extend"
    /\ Fault = ""
    /\ ActiveEdgeObj # None
    /\ CoversEdge
    /\ active_edge' = UpdatedActiveEdge + EdgeLen(ActiveEdgeObj)
    /\ active_node' = heapEdge[ActiveEdgeObj].next
    /\ rule' = "walk"
    /\ UNCHANGED <<text, end_writes, heapNode, heapEdge, heapEnd, remainder, previous_node,
                   i, pc, suffix_array, fallback, link_follows, link_writes,
                   active_length>>

\* lines 198-204: the active length covers the edge, walk down to its child
WalkDown ==
    /\ pc = "extend"
    /\ Fault = ""
    /\ ActiveEdgeObj # None
    /\ CoversEdge
    /\ active_edge' = UpdatedActiveEdge + EdgeLen(ActiveEdgeObj)
    /\ active_length' = active_length - EdgeLen(ActiveEdgeObj)
    /\ active_node' = heapEdge[ActiveEdgeObj].next
    /\ rule' = "walk"
    /\ UNCHANGED <<text, end_writes, heapNode, heapEdge, heapEnd, remainder, previous_node,
                   i, pc, suffix_array, fallback, link_follows, link_writes>>

\* faulty variant: the showstopper counts its suffix as inserted
ShowstopperConsumes ==
    /\ pc = "extend"
    /\ Fault = ""
    /\ ActiveEdgeObj # None
    /\ ~CoversEdge
    /\ TextAt(NextOnEdge) = TextAt(i)
    /\ active_edge' = UpdatedActiveEdge
    /\ active_length' = active_length + 1
    /\ remainder' = remainder - 1
    /\ heapNode' = LinkPrevious(heapNode, active_node)
    /\ link_writes' = CountLinkWrite(link_writes)
    /\ NextPhase
    /\ rule' = "stop"
    /\ UNCHANGED <<text, end_writes, heapEdge, heapEnd, active_node,
                   previous_node, suffix_array, fallback, link_follows>>

\* rule 3, lines 208-218: the phase's character is already on the edge
Showstopper ==
    /\ pc = "extend"
    /\ Fault = ""
    /\ ActiveEdgeObj # None
    /\ ~CoversEdge
    /\ TextAt(NextOnEdge) = TextAt(i)
    /\ active_edge' = UpdatedActiveEdge
    /\ active_length' = active_length + 1
    /\ heapNode' = LinkPrevious(heapNode, active_node)
    /\ link_writes' = CountLinkWrite(link_writes)
    /\ NextPhase
    /\ rule' = "stop"
    /\ UNCHANGED <<text, end_writes, heapEdge, heapEnd, active_node, remainder,
                   previous_node, suffix_array, fallback, link_follows>>

\* faulty variant: the closed edge ends at the shared marker
SharedEndOfSplit(split_end) == global_end

\* line 231: the End object the closed edge of a split refers to
EndOfSplit(split_end) == split_end

\* faulty variant: the slot is computed before the edge's start is moved
SlotOfOldStart(new_start) == SlotOf(TextAt(heapEdge[ActiveEdgeObj].start))

\* line 241: the slot of the truncated edge, from the character at its new start
SlotOfNewStart(new_start) == SlotOf(TextAt(new_start))

\* lines 221-241: the heaps after the split of the active edge; with
\* `whole` false, as line 241 finds them when it raises
SplitHeaps(whole) ==
    LET edge == ActiveEdgeObj
        split_end == Len(heapEnd) + 1
        internal_node == Len(heapNode) + 1
        new_edge == Len(heapEdge) + 1
        internal_edge == Len(heapEdge) + 2
        new_start == heapEdge[edge].start + active_length
        edges1 == Append(Append(heapEdge, NewEdge(i, global_end, LeafSuffixId)),
                         [NewEdge(heapEdge[edge].start, EndOfSplit(split_end), None)
                             EXCEPT !.next = internal_node])
        edges2 == [edges1 EXCEPT ![edge].start = new_start]
        nodes1 == Append(heapNode,
                         [NewNode EXCEPT !.edges[SlotOf(TextAt(i))] = new_edge])
        nodes2 == [nodes1 EXCEPT ![active_node].edges[ActiveSlot] = internal_edge]
        nodes3 == IF whole
                  THEN [nodes2 EXCEPT
                           ![internal_node].edges[SlotOfNewStart(new_start)] = edge]
                  ELSE nodes2
    IN [ends |-> Append(heapEnd, SplitEndValue),
        edges |-> edges2,
        nodes |-> nodes3,
        internal_node |-> internal_node]

\* rule 2, lines 220-248: mismatch inside the edge, split it
Split ==
    /\ pc = "extend"
    /\ Fault = ""
    /\ ActiveEdgeObj # None
    /\ ~CoversEdge
    /\ TextAt(NextOnEdge) # TextAt(i)
    /\ LET h == SplitHeaps(TRUE)
           nodes == LinkPrevious(h.nodes, h.internal_node)
       IN /\ heapEnd' = h.ends
          /\ heapEdge' = h.edges
          /\ heapNode' = nodes
          /\ link_writes' = Append(CountLinkWrite(link_writes), 0)
          /\ previous_node' = h.internal_node
          /\ UpdateActivePoint(nodes)
    /\ rule' = "split"
    /\ UNCHANGED <<text, end_writes, suffix_array>>

\* an IndexError, AttributeError or ValueError leaves the constructor
Raise ==
    /\ pc = "extend"
    /\ Fault # ""
    /\ pc' = "raised"
    /\ active_edge' = UpdatedActiveEdge
    /\ IF Fault = "241"
       THEN LET h == SplitHeaps(FALSE)
            IN /\ heapEnd' = h.ends
               /\ heapEdge' = h.edges
               /\ heapNode' = h.nodes
               /\ link_writes' = Append(link_writes, 0)
       ELSE UNCHANGED <<heapEnd, heapEdge, heapNode, link_writes>>
    /\ rule' = "raise"
    /\ UNCHANGED <<text, end_writes, active_node, active_length, remainder, previous_node,
                   i, suffix_array, fallback, link_follows>>

(***************************************************************************)
(* suffix_tree_to_suffix_array                                             *)
(***************************************************************************)
\* traverse: the suffix ids of the leaves under node n, met from slot s on;
\* the loop over the edge table skips the slots that hold None
RECURSIVE TraverseFrom(_, _, _, _)
TraverseFrom(nodes, edges, n, s) ==
    LET later == {t \in s..(ALPHABET_LENGTH - 1) : nodes[n].edges[t] # None}
    IN IF later = {} THEN <<>>
       ELSE LET t == CHOOSE t \in later : \A u \in later : t <= u
                e == nodes[n].edges[t]
                here == IF edges[e].next # None
                        THEN TraverseFrom(nodes, edges, edges[e].next, 0)
                        ELSE <<edges[e].suffix_id>>
            IN here \o TraverseFrom(nodes, edges, n, t + 1)

traverse(current_node) == TraverseFrom(heapNode, heapEdge, current_node, 0)

SuffixTreeToSuffixArray ==
    /\ pc = "built"
    /\ suffix_array' = traverse(root)
    /\ pc' = "done"
    /\ UNCHANGED <<text, end_writes, heapNode, heapEdge, heapEnd, active_node, active_edge,
                   active_length, remainder, previous_node, i, rule, fallback,
                   link_follows, link_writes>>

UkkNext ==
    \/ BeginPhase
    \/ LeafCreate
    \/ WalkDown
    \/ Showstopper
    \/ Split
    \/ Raise
    \/ SuffixTreeToSuffixArray

(***************************************************************************)
(* modular_exponentiation(a, b, n)                                         *)
(***************************************************************************)
\* format(b, "b"): the binary digits of b, most significant first
RECURSIVE Format(_)
Format(b) ==
    IF b < 2 THEN <<IF b = 1 THEN "1" ELSE "0">>
    ELSE Append(Format(b \div 2), IF b % 2 = 1 THEN "1" ELSE "0")

\* lines 17-21: the frame on entry to the loop; i is the loop's index
MxEnter(a, b, n) ==
    [pc |-> "loop", a |-> a, b |-> b, n |-> n,
     binary_representation |-> Format(b),
     i |-> Len(Format(b)) - 1,
     result |-> 1,
     intermediate_result |-> a % n]

\* lines 24-31: one iteration of the loop, from the least significant bit
MxIterate(f) ==
    [f EXCEPT
        !.result = IF f.binary_representation[f.i + 1] = "1"
                   THEN (f.result * f.intermediate_result) % f.n
                   ELSE @,
        !.intermediate_result = (f.intermediate_result * f.intermediate_result) % f.n,
        !.i = @ - 1]

\* line 33
MxReturn(f) == [f EXCEPT !.pc = "return"]

RECURSIVE MxRun(_)
MxRun(f) ==
    IF f.pc = "return" THEN f.result
    ELSE IF f.i >= 0 THEN MxRun(MxIterate(f))
    ELSE MxRun(MxReturn(f))

modular_exponentiation(a, b, n) == MxRun(MxEnter(a, b, n))

MaxBase == 5
MaxExp == 9
MaxMod == 7

MxOff == [pc |-> "off"]

MxInit ==
    mx \in {MxEnter(a, b, n) : a \in 0..MaxBase, b \in 0..MaxExp, n \in 1..MaxMod}

MxLoop ==
    /\ mx.pc = "loop"
    /\ mx.i >= 0
    /\ mx' = MxIterate(mx)

MxDone ==
    /\ mx.pc = "loop"
    /\ mx.i < 0
    /\ mx' = MxReturn(mx)

(***************************************************************************)
(* find_z_array(pattern)                                                   *)
(***************************************************************************)
MaxPat == 7
PatChars == {97, 98}

ZfOff == [pc |-> "off"]

\* the frame on entry
ZfEnter(pattern) ==
    [pc |-> "start", pattern |-> pattern, z_arr |-> <<>>, pat_length |-> 0,
     left |-> 0, right |-> 0, k |-> 0, cases |-> {}]

ZfInit == zf \in {ZfEnter(p) : p \in StringsUpTo(PatChars, MaxPat)}

\* the while loops of lines 43-44 and 65-66: the value of right after them
RECURSIVE Expand(_, _, _)
Expand(pattern, left, right) ==
    IF right < Len(pattern) /\ pattern[right - left + 1] = pattern[right + 1]
    THEN Expand(pattern, left, right + 1)
    ELSE right

\* faulty variant: a z-value that reaches the right boundary is copied as well
InsideOrOnBox(zk1, right, k) == zk1 <= right - k + 1

\* line 56: the z-value at k1 ends before the right boundary of the z-box
InsideBox(zk1, right, k) == zk1 < right - k + 1

\* lines 29-33, for a pattern that has a first character
ZfBegin ==
    /\ zf.pc = "start"
    /\ Len(zf.pattern) > 0
    /\ zf' = [zf EXCEPT
                !.z_arr = [j \in 1..Len(zf.pattern) |->
                              IF j = 1 THEN Len(zf.pattern) ELSE 0],
                !.pat_length = Len(zf.pattern),
                !.k = 1,
                !.pc = "loop"]

\* line 31 on the empty pattern: z_arr[0] of an empty list is an IndexError
ZfRaise ==
    /\ zf.pc = "start"
    /\ Len(zf.pattern) = 0
    /\ zf' = [zf EXCEPT !.pc = "raised"]

\* case 1, lines 39-48
ZfCase1 ==
    /\ zf.pc = "loop"
    /\ zf.k < zf.pat_length
    /\ zf.k > zf.right
    /\ LET r == Expand(zf.pattern, zf.k, zf.k)
       IN zf' = [zf EXCEPT
                    !.left = zf.k,
                    !.z_arr[zf.k + 1] = r - zf.k,
                    !.right = r - 1,
                    !.k = @ + 1,
                    !.cases = @ \cup {"1"}]

\* case 2a, lines 53-57
ZfCase2a ==
    /\ zf.pc = "loop"
    /\ zf.k < zf.pat_length
    /\ zf.k <= zf.right
    /\ InsideBox(zf.z_arr[(zf.k - zf.left) + 1], zf.right, zf.k)
    /\ zf' = [zf EXCEPT
                !.z_arr[zf.k + 1] = zf.z_arr[(zf.k - zf.left) + 1],
                !.k = @ + 1,
                !.cases = @ \cup {"2a"}]

\* case 2b, lines 60-70
ZfCase2b ==
    /\ zf.pc = "loop"
    /\ zf.k < zf.pat_length
    /\ zf.k <= zf.right
    /\ ~InsideBox(zf.z_arr[(zf.k - zf.left) + 1], zf.right, zf.k)
    /\ LET r == Expand(zf.pattern, zf.k, zf.right)
       IN zf' = [zf EXCEPT
                    !.left = zf.k,
                    !.z_arr[zf.k + 1] = r - zf.k,
                    !.right = r - 1,
                    !.k = @ + 1,
                    !.cases = @ \cup {"2b"}]

\* line 72
ZfReturn ==
    /\ zf.pc = "loop"
    /\ zf.k >= zf.pat_length
    /\ zf' = [zf EXCEPT !.pc = "return"]

(***************************************************************************)
(* miller_rabin(n, k)                                                      *)
(***************************************************************************)
MaxN == 41
MaxK == 2
\* cap on the halvings of the factoring loop (it never ends for n = 1)
MaxHalvings == 6

MrOff == [pc |-> "off"]

MrEnter(n, k) ==
    [pc |-> "start", n |-> n, k |-> k, s |-> 0, t |-> 0, round |-> 0,
     a |-> None, current |-> None, prev |-> None, j |-> 0, ret |-> "none"]

MrInit == mr \in {MrEnter(n, k) : n \in 1..MaxN, k \in 0..MaxK}

\* faulty variant: one squaring too few
OneSquaringLess(s) == s - 2

\* range(s - 1) of line 50: the number of squarings of a round
Squarings(s) == s - 1

\* lines 22-23
MrSmallPrime ==
    /\ mr.pc = "start"
    /\ mr.n = 2 \/ mr.n = 3
    /\ mr' = [mr EXCEPT !.pc = "return", !.ret = "True"]

\* lines 26-27
MrEven ==
    /\ mr.pc = "start"
    /\ ~(mr.n = 2 \/ mr.n = 3)
    /\ mr.n % 2 = 0
    /\ mr' = [mr EXCEPT !.pc = "return", !.ret = "False"]

\* lines 30-31
MrBeginFactor ==
    /\ mr.pc = "start"
    /\ ~(mr.n = 2 \/ mr.n = 3)
    /\ mr.n % 2 # 0
    /\ mr' = [mr EXCEPT !.pc = "factor", !.s = 0, !.t = mr.n - 1]

\* lines 33-35: one halving
MrHalve ==
    /\ mr.pc = "factor"
    /\ mr.t % 2 = 0
    /\ mr.s < MaxHalvings
    /\ mr' = [mr EXCEPT !.s = @ + 1, !.t = @ \div 2]

\* line 33 false: the loop over the rounds starts
MrFactored ==
    /\ mr.pc = "factor"
    /\ mr.t % 2 # 0
    /\ mr' = [mr EXCEPT !.pc = "rounds", !.round = 0]

\* lines 40-47: draw a base; the round is passed at once or squaring starts
MrDraw ==
    /\ mr.pc = "rounds"
    /\ mr.round < mr.k
    /\ \E a \in 2..(mr.n - 2) :
          LET current == modular_exponentiation(a, mr.t, mr.n)
          IN IF current = 1 \/ current = mr.n - 1
             THEN mr' = [mr EXCEPT !.a = a, !.current = current,
                                   !.round = @ + 1]
             ELSE mr' = [mr EXCEPT !.a = a, !.current = current,
                                   !.j = 0, !.pc = "square"]

\* lines 50-60: one squaring
MrSquare ==
    /\ mr.pc = "square"
    /\ mr.j < Squarings(mr.s)
    /\ LET prev == mr.current
           current == (prev * prev) % mr.n
       IN IF current = mr.n - 1
          THEN mr' = [mr EXCEPT !.prev = prev, !.current = current,
                                !.round = @ + 1, !.pc = "rounds"]
          ELSE IF current = 1 /\ prev # mr.n - 1
          THEN mr' = [mr EXCEPT !.prev = prev, !.current = current,
                                !.pc = "return", !.ret = "False"]
          ELSE mr' = [mr EXCEPT !.prev = prev, !.current = current,
                                !.j = @ + 1]

\* lines 62-65: the squaring loop ran out without a break
MrLoopElse ==
    /\ mr.pc = "square"
    /\ mr.j >= Squarings(mr.s)
    /\ IF mr.current # mr.n - 1
       THEN mr' = [mr EXCEPT !.pc = "return", !.ret = "False"]
       ELSE mr' = [mr EXCEPT !.round = @ + 1, !.pc = "rounds"]

\* line 68
MrProbablyPrime ==
    /\ mr.pc = "rounds"
    /\ mr.round >= mr.k
    /\ mr' = [mr EXCEPT !.pc = "return", !.ret = "True"]

(***************************************************************************)
(* Specifications: one per program, the other frames idle                  *)
(***************************************************************************)
\* no Ukkonen object is under construction
UkkOff ==
    /\ text = <<>>
    /\ heapNode = <<>>
    /\ heapEnd = <<>>
    /\ heapEdge = <<>>
    /\ active_node = None
    /\ active_edge = None
    /\ active_length = 0
    /\ remainder = 0
    /\ previous_node = None
    /\ i = 0
    /\ pc = "off"
    /\ suffix_array = <<>>
    /\ rule = "none"
    /\ fallback = 0
    /\ link_follows = 0
    /\ link_writes = <<>>
    /\ end_writes = 0

Init == UkkInit /\ mx = MxOff /\ zf = ZfOff /\ mr = MrOff

Next ==
    \/ BeginPhase /\ UNCHANGED <<mx, zf, mr>>
    \/ LeafCreate /\ UNCHANGED <<mx, zf, mr>>
    \/ WalkDown /\ UNCHANGED <<mx, zf, mr>>
    \/ Showstopper /\ UNCHANGED <<mx, zf, mr>>
    \/ Split /\ UNCHANGED <<mx, zf, mr>>
    \/ Raise /\ UNCHANGED <<mx, zf, mr>>
    \/ SuffixTreeToSuffixArray /\ UNCHANGED <<mx, zf, mr>>

Spec == Init /\ [][Next]_vars

\* the iterations of build_suffix_tree and extend_suffix_tree
BuildStep ==
    /\ BeginPhase \/ LeafCreate \/ WalkDown \/ Showstopper \/ Split \/ Raise
    /\ UNCHANGED <<mx, zf, mr>>

\* the constructor runs in one thread that is never suspended for good: while
\* an iteration of the construction can be taken, one is taken
SpecFair == Spec /\ WF_vars(BuildStep)

InitModExp == MxInit /\ UkkOff /\ zf = ZfOff /\ mr = MrOff

NextModExp ==
    \/ MxLoop /\ UNCHANGED <<ukkVars, zf, mr>>
    \/ MxDone /\ UNCHANGED <<ukkVars, zf, mr>>

SpecModExp == InitModExp /\ [][NextModExp]_vars

InitZ == ZfInit /\ UkkOff /\ mx = MxOff /\ mr = MrOff

NextZ ==
    \/ ZfBegin /\ UNCHANGED <<ukkVars, mx, mr>>
    \/ ZfRaise /\ UNCHANGED <<ukkVars, mx, mr>>
    \/ ZfCase1 /\ UNCHANGED <<ukkVars, mx, mr>>
    \/ ZfCase2a /\ UNCHANGED <<ukkVars, mx, mr>>
    \/ ZfCase2b /\ UNCHANGED <<ukkVars, mx, mr>>
    \/ ZfReturn /\ UNCHANGED <<ukkVars, mx, mr>>

SpecZ == InitZ /\ [][NextZ]_vars

InitMillerRabin == MrInit /\ UkkOff /\ mx = MxOff /\ zf = ZfOff

NextMillerRabin ==
    \/ MrSmallPrime /\ UNCHANGED <<ukkVars, mx, zf>>
    \/ MrEven /\ UNCHANGED <<ukkVars, mx, zf>>
    \/ MrBeginFactor /\ UNCHANGED <<ukkVars, mx, zf>>
    \/ MrHalve /\ UNCHANGED <<ukkVars, mx, zf>>
    \/ MrFactored /\ UNCHANGED <<ukkVars, mx, zf>>
    \/ MrDraw /\ UNCHANGED <<ukkVars, mx, zf>>
    \/ MrSquare /\ UNCHANGED <<ukkVars, mx, zf>>
    \/ MrLoopElse /\ UNCHANGED <<ukkVars, mx, zf>>
    \/ MrProbablyPrime /\ UNCHANGED <<ukkVars, mx, zf>>

SpecMillerRabin == InitMillerRabin /\ [][NextMillerRabin]_vars

(***************************************************************************)
(* Properties of the suffix tree and the suffix array                      *)
(***************************************************************************)
\* the input T has every code point in [37, 126]
ValidText == \A j \in 1..(Len(text) - 1) : text[j] \in (ALPHABET_START + 1)..ALPHABET_END

\* the suffix of T + "$" that starts at offset j
Suffix(j) == SubSeq(text, j + 1, Len(text))

\* s is below t in lexicographic code-point order
LexLess(s, t) ==
    \E k \in 1..Len(t) :
        /\ \A m \in 1..(k - 1) : m <= Len(s) /\ s[m] = t[m]
        /\ \/ k = Len(s) + 1
           \/ k <= Len(s) /\ s[k] < t[k]

\* the suffix array by sorting: at rank r the offset with r - 1 suffixes below it
NaiveSuffixArray ==
    [r \in 1..Len(text) |->
        CHOOSE j \in 0..(Len(text) - 1) :
            Cardinality({m \in 0..(Len(text) - 1) : LexLess(Suffix(m), Suffix(j))})
                = r - 1]

\* the edges of the tree under node n, each with the string spelled from the
\* root to its end: <<edge, string>>
RECURSIVE EdgesUnder(_, _)
EdgesUnder(n, prefix) ==
    UNION {
        LET e == heapNode[n].edges[s]
            label == SubSeq(text, heapEdge[e].start + 1,
                            heapEnd[heapEdge[e].end] + 1)
        IN {<<e, prefix \o label>>} \cup
           (IF heapEdge[e].next # None
            THEN EdgesUnder(heapEdge[e].next, prefix \o label)
            ELSE {})
        : s \in {t \in 0..(ALPHABET_LENGTH - 1) : heapNode[n].edges[t] # None}}

TreeEdges == EdgesUnder(root, <<>>)
LeafEdges == {p \in TreeEdges : heapEdge[p[1]].next = None}

\* C1: for a text over [37,126] the suffix array read off the tree is the one
\* obtained by sorting the suffixes of T+"$", and lists the suffixes in
\* strictly ascending order
C1_SuffixArraySorted ==
    (pc = "done" /\ ValidText) =>
        /\ suffix_array = NaiveSuffixArray
        /\ \A r \in 1..(Len(suffix_array) - 1) :
              LexLess(Suffix(suffix_array[r]), Suffix(suffix_array[r + 1]))

C1_Witness ==
    /\ pc = "done"
    /\ ValidText
    /\ Len(text) >= 6
    /\ Len(heapNode) >= 4
    /\ suffix_array = NaiveSuffixArray
    /\ suffix_array[1] = Len(text) - 1

\* C2: for a text over [37,126] the finished tree has len(T)+1 leaf edges,
\* the leaf with suffix id j ends the path that spells the suffix at offset j,
\* and the suffix array holds every offset 0..len(T) exactly once
C2_LeavesArePermutation ==
    (pc \in {"built", "done"} /\ ValidText) =>
        /\ Cardinality(LeafEdges) = Len(text)
        /\ \A j \in 0..(Len(text) - 1) :
              \E p \in LeafEdges :
                  /\ heapEdge[p[1]].suffix_id = j
                  /\ p[2] = Suffix(j)
        /\ pc = "done" =>
              /\ Len(suffix_array) = Len(text)
              /\ \A j \in 0..(Len(text) - 1) :
                    Cardinality({r \in 1..Len(suffix_array) : suffix_array[r] = j}) = 1

C2_Witness ==
    /\ pc = "done"
    /\ ValidText
    /\ Len(text) >= 6
    /\ Cardinality(LeafEdges) = Len(text)
    /\ Len(suffix_array) = Len(text)
    /\ {suffix_array[r] : r \in 1..Len(suffix_array)} = 0..(Len(text) - 1)
    /\ \E p \in TreeEdges : heapEdge[p[1]].next # None

\* C3: a text with a code point outside [36,126], or with "$" in it, is
\* rejected before the first phase runs: no phase starts, no node or edge is
\* created for it and no suffix array is obtained
C3_FailsFast ==
    ~ValidText =>
        /\ pc \in {"build", "raised"}
        /\ i = 0
        /\ heapEdge = <<>>
        /\ Len(heapNode) = 1
        /\ suffix_array = <<>>

\* C4: "banana" gives [6, 5, 3, 1, 0, 4, 2]; the empty text is no error, runs
\* exactly one phase, builds one leaf and gives [0]; "a" gives [1, 0]
C4_ConcreteResults ==
    /\ (text = banana \o <<Terminator>> /\ pc = "done") =>
          suffix_array = <<6, 5, 3, 1, 0, 4, 2>>
    /\ text = <<Terminator>> =>
          /\ pc # "raised"
          /\ pc \in {"built", "done"} =>
                /\ i = 1
                /\ Len(heapEdge) = 1
                /\ Cardinality(LeafEdges) = 1
          /\ pc = "done" => suffix_array = <<0>>
    /\ (text = <<97, Terminator>> /\ pc = "done") =>
          (Len(suffix_array) = 2 /\ suffix_array = <<1, 0>>)

C4_Witness ==
    /\ pc = "done"
    /\ text = banana \o <<Terminator>>
    /\ suffix_array = <<6, 5, 3, 1, 0, 4, 2>>
    /\ Len(heapNode) = 4

\* every string spelled from the root, stopping at a node or inside an edge
Spelled ==
    UNION {{SubSeq(p[2], 1, m) :
               m \in (Len(p[2]) - EdgeLen(p[1]) + 1)..Len(p[2])} : p \in TreeEdges}
        \cup {<<>>}

Substrings(s) == {SubSeq(s, a, b) : a \in 1..(Len(s) + 1), b \in 0..Len(s)}

\* C8: once a phase of a valid text has finished, the strings spelled from
\* the root are exactly the substrings of the text read so far (the i
\* characters Text[0..i-1] after i finished phases); every suffix of it is
\* among them
C8_ImplicitSuffixTree ==
    (ValidText /\ pc \in {"build", "built"} /\ i >= 1) =>
        /\ Spelled = Substrings(SubSeq(text, 1, i))
        /\ \A j \in 0..(i - 1) : SubSeq(text, j + 1, i) \in Spelled

C8_Witness ==
    /\ ValidText
    /\ pc = "build"
    /\ i >= 5
    /\ remainder >= 2
    /\ rule = "stop"
    /\ Len(heapNode) >= 3
    /\ Spelled = Substrings(SubSeq(text, 1, i))

\* C9: on a valid text the active-point update always finds the suffix link
\* of a non-root active node set: the reset to the root of line 264 never runs
C9_NoFallback == ValidText => fallback = 0

C9_Witness ==
    /\ ValidText
    /\ link_follows >= 2
    /\ rule \in {"leaf", "split"}
    /\ active_node # root
    /\ fallback = 0

\* C10: a node's link is assigned at most once, so a link that is set never
\* changes, and the root keeps the self-link of the constructor; on a valid
\* text the only node without a link is the internal node created last in
\* the running phase, so when a phase has finished every node has had its
\* link assigned exactly once
C10_LinksSetOnce ==
    /\ heapNode[root].link = root /\ link_writes[root] = 1
    /\ \A n \in 1..Len(heapNode) :
          /\ link_writes[n] <= 1
          /\ link_writes[n] = 0 <=> heapNode[n].link = None
    /\ ValidText =>
          /\ \A n \in 1..Len(heapNode) :
                link_writes[n] = 0 => (pc = "extend" /\ n = previous_node)
          /\ pc \in {"build", "built", "done"} =>
                \A n \in 1..Len(heapNode) :
                    link_writes[n] = 1 /\ heapNode[n].link # None

C10_Witness ==
    /\ ValidText
    /\ pc = "build"
    /\ Len(heapNode) >= 4
    /\ \A n \in 1..Len(heapNode) : link_writes[n] = 1 /\ heapNode[n].link # None
    /\ \E n \in 2..Len(heapNode) : heapNode[n].link # root

\* the leaf-creation case of line 182 is about to run
NoEdgeCase == pc = "extend" /\ Fault = "" /\ ActiveEdgeObj = None

\* the split of lines 220-241 is about to run
SplitCase ==
    /\ pc = "extend"
    /\ Fault = ""
    /\ ActiveEdgeObj # None
    /\ ~CoversEdge
    /\ TextAt(NextOnEdge) # TextAt(i)

\* C11: on a valid text every edge held in a slot of a node's table starts
\* with the character of that slot, ord(Text[e.start]) - 36 = s; the no-edge
\* case runs with active length 0 only, so its leaf goes under Text[i]; a
\* split leaves the closed edge in the old slot of the active node, and the
\* truncated edge and the new leaf in the new node under their first characters
C11_SlotKeyConsistency ==
    ValidText =>
        /\ \A n \in 1..Len(heapNode) :
              \A t \in 0..(ALPHABET_LENGTH - 1) :
                  heapNode[n].edges[t] # None =>
                      text[heapEdge[heapNode[n].edges[t]].start + 1] - ALPHABET_START = t
        /\ NoEdgeCase => (active_length = 0 /\ ActiveSlot = TextAt(i) - ALPHABET_START)
        /\ rule = "split" =>
              LET internal_node == Len(heapNode)
                  new_edge == Len(heapEdge) - 1
                  internal_edge == Len(heapEdge)
              IN /\ heapEdge[internal_edge].next = internal_node
                 /\ \E n \in 1..(Len(heapNode) - 1) :
                       heapNode[n].edges[TextAt(heapEdge[internal_edge].start)
                                             - ALPHABET_START] = internal_edge
                 /\ heapNode[internal_node].edges[TextAt(i) - ALPHABET_START] = new_edge
                 /\ Cardinality({t \in 0..(ALPHABET_LENGTH - 1) :
                                    heapNode[internal_node].edges[t] # None}) = 2

C11_Witness ==
    /\ ValidText
    /\ rule = "split"
    /\ Len(heapNode) >= 3
    /\ \A t \in 0..(ALPHABET_LENGTH - 1) :
          heapNode[Len(heapNode)].edges[t] # None =>
              text[heapEdge[heapNode[Len(heapNode)].edges[t]].start + 1]
                  - ALPHABET_START = t
    /\ \E t \in 0..(ALPHABET_LENGTH - 1) :
          /\ heapNode[Len(heapNode)].edges[t] # None
          /\ heapNode[Len(heapNode)].edges[t] < Len(heapEdge) - 1

\* the state part of C12: the marker has been written once per started
\* phase and holds the index of the last started phase; an edge refers to the
\* marker exactly when it has no child node; the End object of an edge with a
\* child node is its own, shared with no other edge
SharedEndState ==
    /\ pc \in {"extend", "raised"} =>
          (end_writes = i + 1 /\ heapEnd[global_end] = i)
    /\ pc \in {"build", "built", "done"} =>
          (end_writes = i /\ (i > 0 => heapEnd[global_end] = i - 1))
    /\ \A e \in 1..Len(heapEdge) :
          /\ heapEdge[e].next = None <=> heapEdge[e].end = global_end
          /\ heapEdge[e].next # None =>
                /\ heapEdge[e].end \in 2..Len(heapEnd)
                /\ \A f \in 1..Len(heapEdge) :
                      heapEdge[f].end = heapEdge[e].end => f = e

\* the step part of C12: only the start of a phase writes the marker, and it
\* writes the phase index; End objects are created by splits only; no step
\* changes the value of an existing End object other than the marker, nor
\* the End object an existing edge refers to
SharedEndStep ==
    /\ end_writes' # end_writes =>
          (rule' = "begin" /\ end_writes' = end_writes + 1
             /\ heapEnd'[global_end] = i)
    /\ heapEnd'[global_end] # heapEnd[global_end] => end_writes' # end_writes
    /\ Len(heapEnd') # Len(heapEnd) =>
          (rule' = "split" /\ Len(heapEnd') = Len(heapEnd) + 1
             /\ heapEdge'[Len(heapEdge')].end = Len(heapEnd')
             /\ heapEdge'[Len(heapEdge')].next # None)
    /\ \A k \in 2..Len(heapEnd) : heapEnd'[k] = heapEnd[k]
    /\ \A e \in 1..Len(heapEdge) : heapEdge'[e].end = heapEdge[e].end

\* C12: the shared end marker is written exactly once per phase, to the phase
\* index; from then on every edge without a child node reads that index
\* through the marker, every edge with a child node has an End object of its
\* own, created by the split that created the edge and never changed
\* afterwards, and an edge is open exactly when it is a leaf edge
C12_SharedEndMarker == [](SharedEndState) /\ [][SharedEndStep]_vars

\* a later phase is running while an edge closed by an earlier split still
\* ends before the phase index, next to leaf edges that end at it
C12_Witness ==
    /\ pc = "extend"
    /\ rule # "begin"
    /\ end_writes >= 3
    /\ \E e \in 1..Len(heapEdge) :
          /\ heapEdge[e].next # None
          /\ heapEnd[heapEdge[e].end] < i - 1
    /\ \E e \in 1..Len(heapEdge) :
          /\ heapEdge[e].next = None
          /\ heapEnd[heapEdge[e].end] = i

\* the edges held in a slot of some node's table
StoredEdges ==
    {heapNode[n].edges[t] :
        n \in 1..Len(heapNode), t \in 0..(ALPHABET_LENGTH - 1)} \ {None}

\* C13: on a valid text every edge held in a node's table has either a child
\* node or a suffix id, never both and never neither, and a length of at
\* least 1; a split only starts with 1 <= active length < edge length, and
\* leaves a closed edge with a child node, a new leaf with a suffix id and the
\* truncated old edge, each in a table and each of length at least 1
C13_EdgeInvariant ==
    ValidText =>
        /\ \A e \in StoredEdges :
              /\ (heapEdge[e].next # None) # (heapEdge[e].suffix_id # None)
              /\ EdgeLen(e) >= 1
        /\ SplitCase =>
              (1 <= active_length /\ active_length < EdgeLen(ActiveEdgeObj))
        /\ rule = "split" =>
              LET internal_edge == Len(heapEdge)
                  new_edge == Len(heapEdge) - 1
                  internal_node == Len(heapNode)
              IN /\ {internal_edge, new_edge} \subseteq StoredEdges
                 /\ heapEdge[internal_edge].next = internal_node
                 /\ heapEdge[internal_edge].suffix_id = None
                 /\ heapEdge[new_edge].next = None
                 /\ heapEdge[new_edge].suffix_id # None
                 /\ \A t \in 0..(ALPHABET_LENGTH - 1) :
                       heapNode[internal_node].edges[t] # None =>
                           EdgeLen(heapNode[internal_node].edges[t]) >= 1

\* a split has just cut an edge that had a child node: the closed edge and the
\* truncated edge both lead to a node, the new leaf carries a suffix id
C13_Witness ==
    /\ ValidText
    /\ rule = "split"
    /\ \E t \in 0..(ALPHABET_LENGTH - 1) :
          LET e == heapNode[Len(heapNode)].edges[t]
          IN /\ e # None
             /\ e < Len(heapEdge) - 1
             /\ heapEdge[e].next # None
             /\ heapEdge[e].suffix_id = None
             /\ EdgeLen(e) >= 1
    /\ EdgeLen(Len(heapEdge)) >= 1
    /\ heapEdge[Len(heapEdge) - 1].suffix_id # None

\* the showstopper of lines 206-218 is about to run: an edge exists, the
\* active length is below its length and the next character on it is Text[i]
ShowstopperCase ==
    /\ pc = "extend"
    /\ Fault = ""
    /\ ActiveEdgeObj # None
    /\ active_length < EdgeLen(ActiveEdgeObj)
    /\ TextAt(heapEdge[ActiveEdgeObj].start + active_length) = TextAt(i)

\* what an iteration taken in the showstopper case does and leaves alone; the
\* active edge keeps the value given by update_active_edge at the head of the
\* iteration
ShowstopperStep ==
    /\ active_length' = active_length + 1
    /\ i' = i + 1
    /\ pc' \in {"build", "built"}
    /\ remainder' = remainder
    /\ active_node' = active_node
    /\ active_edge' = UpdatedActiveEdge
    /\ previous_node' = previous_node
    /\ heapEdge' = heapEdge
    /\ heapEnd' = heapEnd
    /\ Len(heapNode') = Len(heapNode)
    /\ \A n \in 1..Len(heapNode) :
          /\ heapNode'[n].edges = heapNode[n].edges
          /\ heapNode'[n].link # heapNode[n].link =>
                (n = previous_node /\ heapNode'[n].link = active_node)

\* C14: an iteration taken when an edge exists, active length < edge length
\* and Text[edge.start + active length] = Text[i] adds exactly 1 to the active
\* length and ends the phase at once, keeps remainder and the active node, and
\* creates or changes no node, edge, table slot or end value; it may only set
\* the suffix link of the pending previous internal node to the active node.
\* No other iteration ends a phase while remainder is positive
C14_ShowstopperFrame ==
    [][/\ ShowstopperCase => ShowstopperStep
       /\ (pc = "extend" /\ i' = i + 1 /\ remainder' > 0) => ShowstopperCase]_vars

\* a showstopper has just ended a phase in which a split had left a pending
\* internal node, whose suffix link now points at the active node
C14_Witness ==
    /\ rule = "stop"
    /\ previous_node # None
    /\ heapNode[previous_node].link = active_node
    /\ remainder >= 2
    /\ active_length >= 1

\* the state part of C15: the active node is a node, the phase index stays
\* within 0..len(T), and the loop of build_suffix_tree is left after phase
\* len(T) with remainder 0
CompletionState ==
    /\ active_node \in 1..Len(heapNode)
    /\ i \in 0..Len(text)
    /\ remainder \in 0..(i + 1)
    /\ pc \in {"build", "extend"} => i < Len(text)
    /\ pc = "extend" => remainder >= 1
    /\ pc \in {"built", "done"} => (i = Len(text) /\ remainder = 0)
    /\ pc # "raised"

\* the step part of C15: phases are taken in index order, a phase starts only
\* when the previous one has ended, and a walk-down goes to an existing child
\* and shortens the active length while remainder stays the same
CompletionStep ==
    /\ i' \in {i, i + 1}
    /\ i' = i + 1 => (pc = "extend" /\ pc' \in {"build", "built"})
    /\ rule' = "begin" => (pc = "build" /\ heapEnd'[global_end] = i /\ i' = i)
    /\ rule' = "walk" =>
          /\ active_node' \in 1..Len(heapNode)
          /\ active_length' < active_length
          /\ active_length' >= 0
          /\ remainder' = remainder
          /\ i' = i

\* C15: on a text over [37,126] the construction runs to completion: every
\* phase's inner loop ends, walk-downs strictly shorten the active length and
\* never reach an absent child, phases run in the order 0..len(T), and the
\* loop is left after the last phase with remainder = 0
C15_RunsToCompletion ==
    /\ [](ValidText => CompletionState)
    /\ [][ValidText => CompletionStep]_vars
    /\ (ValidText /\ pc \in {"build", "extend"}) ~>
           (pc = "built" /\ i = Len(text) /\ remainder = 0)

\* the last phase of a valid text has ended with remainder 0 after a phase
\* that walked down an edge
C15_Witness ==
    /\ ValidText
    /\ pc = "built"
    /\ i = Len(text)
    /\ remainder = 0
    /\ Len(text) >= 5
    /\ Len(heapNode) >= 3

\* a walk-down has just moved the active node to a child on a valid text
WalkedDown == ValidText /\ rule = "walk" /\ active_node # root

(***************************************************************************)
(* Properties of the numeric and string routines                           *)
(***************************************************************************)
RECURSIVE Power(_, _)
Power(a, b) == IF b = 0 THEN 1 ELSE a * Power(a, b - 1)

\* C5: modular_exponentiation(a, b, n) returns (a^b) mod n for all a >= 0,
\* b >= 0, n >= 1, and the result lies in [0, n)
C5_ModExpExact ==
    mx.pc = "return" =>
        /\ mx.result = Power(mx.a, mx.b) % mx.n
        /\ 0 <= mx.result /\ mx.result < mx.n

\* the length of the longest substring at offset k of p that matches a prefix of p
NaiveZ(p, k) ==
    CHOOSE m \in 0..(Len(p) - k) :
        /\ \A q \in 1..m : p[q] = p[k + q]
        /\ m = Len(p) - k \/ p[m + 1] # p[k + m + 1]

\* C6: for a non-empty pattern the Z-array has the pattern's length, z[0] is
\* that length, and every z[i] written so far, by whichever case, is the
\* length of the longest match of the prefix at i
C6_ZArrayExact ==
    (zf.pc \in {"loop", "return"} /\ Len(zf.pattern) > 0) =>
        /\ Len(zf.z_arr) = Len(zf.pattern)
        /\ zf.z_arr[1] = Len(zf.pattern)
        /\ \A k \in 1..(zf.k - 1) : zf.z_arr[k + 1] = NaiveZ(zf.pattern, k)
        /\ zf.pc = "return" => zf.k = Len(zf.pattern)

C6_Witness ==
    /\ zf.pc = "return"
    /\ zf.cases = {"1", "2a", "2b"}
    /\ \E k \in 1..(Len(zf.pattern) - 1) : zf.z_arr[k + 1] >= 3
    /\ \A k \in 1..(Len(zf.pattern) - 1) : zf.z_arr[k + 1] = NaiveZ(zf.pattern, k)

IsPrime(n) == n >= 2 /\ \A d \in 2..(n - 1) : n % d # 0

\* C7: miller_rabin never declares a prime composite, whatever bases are
\* drawn: a prime returns True, False implies composite, and an even n > 2
\* returns False without drawing a base
C7_PrimesPass ==
    /\ (mr.pc = "return" /\ IsPrime(mr.n)) => mr.ret = "True"
    /\ (mr.pc = "return" /\ mr.n >= 2 /\ mr.ret = "False") => ~IsPrime(mr.n)
    /\ (mr.n > 2 /\ mr.n % 2 = 0) =>
          /\ mr.a = None
          /\ mr.pc = "return" => mr.ret = "False"

C7_Witness ==
    /\ mr.pc = "return"
    /\ IsPrime(mr.n)
    /\ mr.n >= 13
    /\ mr.round = 2
    /\ mr.prev # None /\ mr.prev # mr.n - 1 /\ mr.current = mr.n - 1
    /\ mr.ret = "True"

\* C16: miller_rabin(n, k) ends with a boolean for every n >= 1 and k >= 0,
\* whatever bases are drawn: while n - 1 is factored, 2^s * t = n - 1 with
\* t >= 1, so that every halving makes t smaller and the loop ends within
\* log2(n - 1) halvings; a round squares at most s - 1 times; what is returned
\* is True or False
C16_Terminates ==
    /\ mr.pc = "factor" =>
          /\ Power(2, mr.s) * mr.t = mr.n - 1
          /\ mr.t >= 1
          /\ mr.t % 2 = 0 => mr.t \div 2 < mr.t
    /\ mr.pc \in {"rounds", "square"} =>
          (mr.t % 2 = 1 /\ Power(2, mr.s) * mr.t = mr.n - 1)
    /\ mr.pc = "square" => (mr.j >= 0 /\ mr.j <= mr.s - 1)
    /\ mr.pc = "return" => mr.ret \in {"True", "False"}

====
